---- MODULE Spec2Model ----
(***************************************************************************)
(* Balance-board serial consumers: the console receiver                    *)
(* (balanceboardreceiver.py) and the plot visualiser                       *)
(* (balanceboardvisualiser.py).                                            *)
(*                                                                         *)
(* Text is a sequence of one-character tokens.  The line-feed, carriage    *)
(* return and space are the tokens LF, CR and SP; "xC3" and "xA9" are the  *)
(* two bytes of the UTF-8 encoding of U+00E9, which decodes to the         *)
(* character token "U+E9".  Every other token is an ASCII character and    *)
(* is its own byte.  Numbers are fixed-point, in tenths.                   *)
(***************************************************************************)
EXTENDS Integers, Sequences, FiniteSets, TLC

\* ------------------------------------------------------------------ bounds

\* Lines the device sends in the "mixed" scenario.
MaxLines == 2
\* Lines the device sends in the "long" scenario.
LongLines == 23
\* In the "long" scenario every NoiseEvery-th line is a noise line.
NoiseEvery == 12
\* The device writes a line only while fewer bytes than this wait unread.
WireCap == 16
\* Prints that raise in one run of the receiver.
MaxPrintFaults == 1
\* Lines the device sends when both consumers run side by side.
PairLines == 3

\* ---------------------------------------------------------- program constants

\* Trail capacity: `if len(self.trail_x) > 20`.
TrailCap == 20
\* A data line has exactly 7 comma-separated fields.
FieldCount == 7

\* ------------------------------------------------------------- characters

LF == "LF"
CR == "CR"
SP == "SP"

\* What str.strip() and float() treat as whitespace, among the tokens used.
Whitespace == {SP, CR, LF}

Digits == {"0", "1", "2", "3", "4", "5", "6", "7", "8", "9"}

DigitVal(c) ==
    CASE c = "0" -> 0 [] c = "1" -> 1 [] c = "2" -> 2 [] c = "3" -> 3
      [] c = "4" -> 4 [] c = "5" -> 5 [] c = "6" -> 6 [] c = "7" -> 7
      [] c = "8" -> 8 [] c = "9" -> 9

\* ---------------------------------------------------------------- decoding

\* bytes.decode('utf-8', errors='ignore') of one chunk: a complete two-byte
\* sequence gives its character; a lead byte without its continuation, or a
\* continuation byte without its lead, is dropped.
RECURSIVE Decode(_)
Decode(bytes) ==
    IF bytes = <<>> THEN <<>>
    ELSE IF Head(bytes) = "xC3"
         THEN IF Len(bytes) >= 2 /\ bytes[2] = "xA9"
              THEN <<"U+E9">> \o Decode(SubSeq(bytes, 3, Len(bytes)))
              ELSE Decode(Tail(bytes))
    ELSE IF Head(bytes) = "xA9" THEN Decode(Tail(bytes))
    ELSE <<Head(bytes)>> \o Decode(Tail(bytes))

\* ----------------------------------------------------------------- framing

\* buffer = chunk: the partial line of the earlier polls is lost.
AccumulateOverwrites(buf, chunk) == chunk

\* buffer += chunk
Accumulate(buf, chunk) == buf \o chunk

\* '\n' in buffer
HasLF(s) == \E i \in 1..Len(s) : s[i] = LF

FirstLF(s) == CHOOSE i \in 1..Len(s) : s[i] = LF /\ \A j \in 1..(i - 1) : s[j] # LF

\* line, buffer = buffer.split('\n', 1)
SplitFirst(buf) ==
    [line |-> SubSeq(buf, 1, FirstLF(buf) - 1),
     rest |-> SubSeq(buf, FirstLF(buf) + 1, Len(buf))]

RECURSIVE LStrip(_)
LStrip(s) == IF s # <<>> /\ Head(s) \in Whitespace THEN LStrip(Tail(s)) ELSE s

RECURSIVE RStrip(_)
RStrip(s) ==
    IF s # <<>> /\ s[Len(s)] \in Whitespace THEN RStrip(SubSeq(s, 1, Len(s) - 1)) ELSE s

\* The line is used as split, without strip().
StripNothing(s) == s

\* line.strip()
Strip(s) == RStrip(LStrip(s))

\* ----------------------------------------------------------------- parsing

\* The diagnostic prefixes of read_data.
Prefixes ==
    { <<"S", "e", "t", "u", "p">>,
      <<"T", "a", "r", "i", "n", "g">>,
      <<"F", "o", "r", "m", "a", "t">>,
      <<"F", "o", "r", "c", "e">>,
      <<"C", "a", "l", "c", "u", "l", "a", "t", "i", "n", "g">> }

\* line.startswith(p)
StartsWith(s, p) == Len(s) >= Len(p) /\ SubSeq(s, 1, Len(p)) = p

\* any(line.startswith(x) for x in [...])
HasPrefix(line) == \E p \in Prefixes : StartsWith(line, p)

HasComma(s) == \E i \in 1..Len(s) : s[i] = ","

FirstComma(s) == CHOOSE i \in 1..Len(s) : s[i] = "," /\ \A j \in 1..(i - 1) : s[j] # ","

\* line.split(',')
RECURSIVE SplitComma(_)
SplitComma(s) ==
    IF HasComma(s)
    THEN <<SubSeq(s, 1, FirstComma(s) - 1)>>
             \o SplitComma(SubSeq(s, FirstComma(s) + 1, Len(s)))
    ELSE <<s>>

Unsigned(s) == IF s # <<>> /\ s[1] \in {"-", "+"} THEN Tail(s) ELSE s

\* Whether float(s) returns: surrounding whitespace is allowed, then an
\* optional sign, then digits with at most one point and at least one digit.
\* (The exponent, inf, nan and underscore spellings use characters no
\* telemetry field of the model carries.)
IsFloat(s) ==
    LET u == Unsigned(Strip(s))
    IN /\ \A i \in 1..Len(u) : u[i] \in Digits \cup {"."}
       /\ Cardinality({i \in 1..Len(u) : u[i] = "."}) <= 1
       /\ \E i \in 1..Len(u) : u[i] \in Digits

RECURSIVE DigitsVal(_)
DigitsVal(ds) ==
    IF ds = <<>> THEN 0 ELSE 10 * DigitsVal(SubSeq(ds, 1, Len(ds) - 1)) + DigitVal(ds[Len(ds)])

\* float(s), in tenths; the fields of the model carry at most one fractional
\* digit.
FloatVal(s) ==
    LET t == Strip(s)
        u == Unsigned(t)
        dot == IF \E i \in 1..Len(u) : u[i] = "."
               THEN CHOOSE i \in 1..Len(u) : u[i] = "."
               ELSE Len(u) + 1
        whole == DigitsVal(SubSeq(u, 1, dot - 1))
        tenth == IF dot + 1 <= Len(u) THEN DigitVal(u[dot + 1]) ELSE 0
        mag == 10 * whole + tenth
    IN IF t # <<>> /\ t[1] = "-" THEN 0 - mag ELSE mag

\* pop() in place of pop(0): the newest pair is evicted, not the oldest.
PushTrailEvictsNewest(v) ==
    LET tx == Append(v.trail_x, v.copx)
        ty == Append(v.trail_y, v.copy)
    IN IF Len(tx) > TrailCap
       THEN [v EXCEPT !.trail_x = SubSeq(tx, 1, Len(tx) - 1),
                      !.trail_y = SubSeq(ty, 1, Len(ty) - 1)]
       ELSE [v EXCEPT !.trail_x = tx, !.trail_y = ty]

\* self.trail_x.append(self.copx); self.trail_y.append(self.copy);
\* if len(self.trail_x) > 20: pop(0) of both.
PushTrail(v) ==
    LET tx == Append(v.trail_x, v.copx)
        ty == Append(v.trail_y, v.copy)
    IN IF Len(tx) > TrailCap
       THEN [v EXCEPT !.trail_x = Tail(tx), !.trail_y = Tail(ty)]
       ELSE [v EXCEPT !.trail_x = tx, !.trail_y = ty]

\* The first field (as an index of parts, 2..7) whose float() raises; 8 when
\* none does.
FirstBad(parts) ==
    LET bad == {i \in 2..FieldCount : ~IsFloat(parts[i])}
    IN IF bad = {} THEN FieldCount + 1
       ELSE CHOOSE i \in bad : \A j \in bad : i <= j

\* The six float() calls index the fields from 0: float(parts[0]) ..
\* float(parts[5]), so TIME is taken for F1.
ParseFieldsFromTime(v, parts) ==
    LET w == [v EXCEPT !.f1 = FloatVal(parts[1]), !.f2 = FloatVal(parts[2]),
                       !.f3 = FloatVal(parts[3]), !.f4 = FloatVal(parts[4]),
                       !.copx = FloatVal(parts[5]), !.copy = FloatVal(parts[6])]
    IN IF \A i \in 1..(FieldCount - 1) : IsFloat(parts[i]) THEN PushTrail(w) ELSE v

\* The try block of read_data: the six assignments in order, then the trail
\* update; the first float() that raises ends the block (except: pass), and
\* the assignments already made stay.
ParseFields(v, parts) ==
    LET stop == FirstBad(parts)
        set(i, old) == IF i < stop THEN FloatVal(parts[i]) ELSE old
        w == [v EXCEPT !.f1 = set(2, @), !.f2 = set(3, @), !.f3 = set(4, @),
                       !.f4 = set(5, @), !.copx = set(6, @), !.copy = set(7, @)]
    IN IF stop = FieldCount + 1 THEN PushTrail(w) ELSE w

\* if line and not any(line.startswith(x) ...)
IsCandidate(line) == line # <<>> /\ ~HasPrefix(line)

\* if len(parts) >= 7
AtLeastRecordShape(parts) == Len(parts) >= FieldCount

\* if len(parts) == 7
IsRecordShape(parts) == Len(parts) = FieldCount

\* The body of read_data's while loop for one stripped line: the object
\* after it, and the path taken ("empty": the line is empty; "prefix": it
\* has a diagnostic prefix; "count": it has not 7 fields; "raised": a
\* float() raised; "parsed": the try block ran to its end).
ProcessLine(v, line) ==
    IF ~IsCandidate(line)
    THEN [obj |-> v, path |-> IF line = <<>> THEN "empty" ELSE "prefix"]
    ELSE IF ~IsRecordShape(SplitComma(line))
    THEN [obj |-> v, path |-> "count"]
    ELSE [obj |-> ParseFields(v, SplitComma(line)),
          path |-> IF FirstBad(SplitComma(line)) <= FieldCount THEN "raised" ELSE "parsed"]

\* The fields of the visualiser other than the accumulator.
Readings(v) ==
    [f1 |-> v.f1, f2 |-> v.f2, f3 |-> v.f3, f4 |-> v.f4,
     copx |-> v.copx, copy |-> v.copy, trail_x |-> v.trail_x, trail_y |-> v.trail_y]

\* F1..F4, COPx, COPy of the object.
Current(v) == <<v.f1, v.f2, v.f3, v.f4, v.copx, v.copy>>

\* The newest trail entry of the object, <<>> when the trail is empty.
Newest(v) ==
    IF v.trail_x = <<>> \/ v.trail_y = <<>> THEN <<>>
    ELSE <<v.trail_x[Len(v.trail_x)], v.trail_y[Len(v.trail_y)]>>

\* read_data's while loop.  v is the object; sg records every segment split
\* off: as split, as stripped, what became of it, whether it left the
\* readings as they were, and the current values and newest trail entry
\* right after it.
RECURSIVE VExtract(_, _)
VExtract(v, sg) ==
    IF HasLF(v.buffer)
    THEN LET sp == SplitFirst(v.buffer)
             line == Strip(sp.line)
             p == ProcessLine(v, line)
             w == [p.obj EXCEPT !.buffer = sp.rest]
         IN VExtract(w, Append(sg, [raw |-> sp.line, line |-> line, disp |-> p.path,
                                    same |-> Readings(w) = Readings(v),
                                    now |-> Current(w), newest |-> Newest(w)]))
    ELSE [obj |-> v, segs |-> sg]

\* read_data that empties the accumulator at its end: the partial line is
\* lost.
ReadDataDropsPartial(v, bytes, sg) ==
    LET r == VExtract([v EXCEPT !.buffer = Accumulate(v.buffer, Decode(bytes))], sg)
    IN [obj |-> [r.obj EXCEPT !.buffer = <<>>], segs |-> r.segs]

\* read_data with in_waiting > 0 and a read that returns `bytes`.
ReadData(v, bytes, sg) ==
    VExtract([v EXCEPT !.buffer = Accumulate(v.buffer, Decode(bytes))], sg)

\* The receiver's while loop.  failAt = k > 0: the k-th print raises, which
\* ends the loop (except: pass) with the line already split off; failAt = 0:
\* no print raises.  sg records every segment split off: as split, as
\* stripped, what became of it, and whether it left stdout as it was.
RECURSIVE RExtract(_, _, _, _)
RExtract(buf, out, sg, failAt) ==
    IF HasLF(buf)
    THEN LET sp == SplitFirst(buf)
             line == Strip(sp.line)
             e(d) == [raw |-> sp.line, line |-> line, disp |-> d, same |-> d # "printed"]
         IN IF line = <<>>
            THEN RExtract(sp.rest, out, Append(sg, e("empty")), failAt)
            ELSE IF failAt = 1
            THEN [buffer |-> sp.rest, stdout |-> out, segs |-> Append(sg, e("raised")),
                  raised |-> TRUE]
            ELSE RExtract(sp.rest, Append(out, line), Append(sg, e("printed")),
                          IF failAt = 0 THEN 0 ELSE failAt - 1)
    ELSE [buffer |-> buf, stdout |-> out, segs |-> sg, raised |-> FALSE]

\* One iteration of the receiver's loop with in_waiting > 0.
RecvPoll(buf, out, bytes, sg, failAt) ==
    RExtract(Accumulate(buf, Decode(bytes)), out, sg, failAt)

\* abs(x)
Abs(x) == IF x < 0 THEN 0 - x ELSE x

\* The threshold of `if total > 1.0`, in tenths.
Threshold == 10

\* The percentage a cell shows, in tenths of a percent: f'{pct:.1f}%' with
\* pct = (abs(force) / abs(total)) * 100 when total > 1.0, else '0%'.
CellPct(force, total) ==
    IF total > Threshold
    THEN (2000 * Abs(force) + Abs(total)) \div (2 * Abs(total))
    ELSE 0

\* The alpha a cell is given, in thousandths (rounded down):
\* min(max(0.3 + (abs(force) / max(abs(total), 1)) * 0.7, 0.3), 1.0) when
\* total > 1.0, else 0.3.
CellAlpha(force, total) ==
    IF total > Threshold
    THEN LET den == IF Abs(total) > 10 THEN Abs(total) ELSE 10
             a == 300 + (700 * Abs(force)) \div den
             lo == IF a > 300 THEN a ELSE 300
         IN IF lo < 1000 THEN lo ELSE 1000
    ELSE 300

\* The redraw of update(): the trail line (set only when the trail is not
\* empty), the COP point, the four force cells in grid order with their
\* percentage and alpha, the total.
Redraw(v, old) ==
    LET forces == <<v.f2, v.f1, v.f3, v.f4>>
        total == v.f1 + v.f2 + v.f3 + v.f4
    IN [trail |-> IF Len(v.trail_x) > 0 THEN <<v.trail_x, v.trail_y>> ELSE old.trail,
        cop |-> <<v.copx, v.copy>>,
        forces |-> forces,
        total |-> total,
        pct |-> [i \in 1..4 |-> CellPct(forces[i], total)],
        alpha |-> [i \in 1..4 |-> CellAlpha(forces[i], total)]]

\* ------------------------------------------------------------------ device

RECURSIVE JoinComma(_)
JoinComma(fields) ==
    IF Len(fields) = 1 THEN fields[1]
    ELSE fields[1] \o <<",">> \o JoinComma(Tail(fields))

DataFields == << <<"7">>, <<"1">>, <<"2">>, <<"3">>, <<"4">>, <<"5">>, <<"6">> >>
NineFields == << <<"7">>, <<"9">>, <<"9">>, <<"9">>, <<"9">>, <<"9">>, <<"9">> >>

\* A seven-field line whose field k (0-based, 1..6) is not a number.
BadAt(k) == JoinComma([NineFields EXCEPT ![k + 1] = <<"x">>]) \o <<LF>>

\* A data line as println writes it (CR LF).
PlainLine == JoinComma(DataFields) \o <<CR, LF>>

\* A data line with a non-numeric TIME, fractions, a padded field and a
\* negative value.
SignedLine ==
    JoinComma(<< <<"x">>, <<".", "5">>, <<"2">>, <<"0">>, <<SP, "1">>, <<"-", ".", "5">>,
                 <<"8">> >>) \o <<LF>>

\* A data line whose last field ends in a two-byte character.
AccentLine == JoinComma([DataFields EXCEPT ![7] = <<"6", "xC3", "xA9">>]) \o <<LF>>

\* Seven fields behind a diagnostic prefix.
ForceLine == <<"F", "o", "r", "c", "e">> \o <<",">> \o JoinComma(Tail(DataFields)) \o <<LF>>

\* Eight fields.
EightLine == JoinComma(DataFields \o << <<"7">> >>) \o <<LF>>

\* A blank line followed by a whitespace-only line.
BlankLines == <<LF, SP, CR, LF>>

\* What the device may send in each scenario but "long".
Menu(sc) ==
    IF sc = "framing" THEN {PlainLine, AccentLine, ForceLine, BlankLines}
    ELSE {PlainLine, SignedLine, AccentLine, ForceLine, EightLine, BlankLines,
          BadAt(1), BadAt(6)}

DigitTok(n) == CHOOSE c \in Digits : DigitVal(c) = n

\* The n-th data line of the "long" scenario: F1, F2, COPx and COPy follow
\* the sample number, F1 is negative in the odd samples, F3 is 1 and F4 is 0.
LongLine(n) ==
    JoinComma(<< <<DigitTok(n % 10)>>,
                 IF n % 2 = 1 THEN <<"-", DigitTok(n % 10)>> ELSE <<DigitTok(n % 10)>>,
                 <<DigitTok((3 * n) % 10)>>, <<"1">>, <<"0">>,
                 <<DigitTok(n % 10)>>, <<DigitTok((3 * n) % 10)>> >>) \o <<LF>>

\* A line of three fields.
NoiseLine == <<"1", ",", "2", ",", "3", LF>>

\* ------------------------------------------------------------------- state

VARIABLES
    prog,        \* the entry point that was started: "receiver" or "visualiser"
                 \* ("pair": both, side by side on the same chunks)
    scenario,    \* what the device sends: "framing", "mixed" or "long"
    sent,        \* lines the device has sent
    noise,       \* noise lines among them ("long" scenario)
    wire,        \* bytes in the serial input buffer, not yet read
    pc,          \* "main", "ctor", "starting", "connected", "leaving", "exited"
    ser,         \* the transport: "unopened", "open", "closed"
    closeCalled, \* whether ser.close() was called
    buffer,      \* the receiver's accumulator (local of start)
    stdout,      \* the lines the receiver has printed
    self,        \* the visualiser object: buffer, f1..f4, copx, copy, trail_x, trail_y
    shown,       \* what the figure shows after the last redraw
    last,        \* how the last loop iteration or update() ended:
                 \* "none", "ok", "read_raised", "print_raised", "interrupted"
    rxBytes,     \* history: the bytes read so far
    rx,          \* history: the decoded text added to the accumulator so far
    segs         \* history: the segments split off the accumulator so far

vars == <<prog, scenario, sent, noise, wire, pc, ser, closeCalled, buffer, stdout, self,
          shown, last, rxBytes, rx, segs>>

deviceVars == <<sent, noise, wire>>
lifeVars == <<pc, ser, closeCalled>>
recvVars == <<buffer, stdout>>
visVars == <<self, shown>>
histVars == <<rxBytes, rx, segs>>

\* BalanceBoardVisualizer.__init__: the fields after construction.
NewVisualizer ==
    [buffer |-> <<>>, f1 |-> 0, f2 |-> 0, f3 |-> 0, f4 |-> 0, copx |-> 0, copy |-> 0,
     trail_x |-> <<>>, trail_y |-> <<>>]

\* setup_plot: empty trail line, COP point at the origin, cells at 0.0 Kg,
\* 0% and alpha 0.3.
NewFigure ==
    [trail |-> <<<<>>, <<>>>>, cop |-> <<0, 0>>, forces |-> <<0, 0, 0, 0>>, total |-> 0,
     pct |-> <<0, 0, 0, 0>>, alpha |-> <<300, 300, 300, 300>>]

Runs == {<<"receiver", "framing">>, <<"visualiser", "mixed">>, <<"visualiser", "long">>}

Init ==
    /\ \E r \in Runs : prog = r[1] /\ scenario = r[2]
    /\ sent = 0 /\ noise = 0 /\ wire = <<>>
    /\ pc = "main" /\ ser = "unopened" /\ closeCalled = FALSE
    /\ buffer = <<>> /\ stdout = <<>>
    /\ self = NewVisualizer /\ shown = NewFigure
    /\ last = "none"
    /\ rxBytes = <<>> /\ rx = <<>> /\ segs = <<>>

\* ------------------------------------------------------------------ actions

\* The device writes one line to the serial link (what it wrote before the
\* port was opened is discarded by reset_input_buffer and is left out).
DeviceSend ==
    /\ pc = "connected"
    /\ Len(wire) < WireCap
    /\ \/ /\ scenario # "long" /\ sent < MaxLines
          /\ \E l \in Menu(scenario) : wire' = wire \o l
          /\ noise' = noise
       \/ /\ scenario = "long" /\ sent < LongLines
          /\ IF sent % NoiseEvery = NoiseEvery - 1
             THEN wire' = wire \o NoiseLine /\ noise' = noise + 1
             ELSE wire' = wire \o LongLine(sent - noise) /\ noise' = noise
    /\ sent' = sent + 1
    /\ UNCHANGED <<prog, scenario, lifeVars, recvVars, visVars, last, histVars>>

\* serial.Serial(port, baudrate, timeout=0) in either constructor: the port
\* opens, or SerialException leaves main with no port open.
Open ==
    /\ pc = "main"
    /\ \/ pc' = "ctor" /\ ser' = "open"
       \/ pc' = "exited" /\ ser' = ser
    /\ UNCHANGED <<prog, scenario, deviceVars, closeCalled, recvVars, visVars, last,
                   histVars>>

\* The rest of either constructor, after the port is open: reset_input_buffer,
\* print and, in the visualiser, setup_plot.  A fault here leaves main through
\* its except clause; the receiver's finally then finds `receiver` unbound
\* (the NameError is swallowed), the visualiser's main has no finally.
Construct ==
    /\ pc = "ctor"
    /\ \/ /\ pc' = IF prog = "receiver" THEN "connected" ELSE "starting"
          /\ wire' = <<>>
       \/ /\ pc' = "exited"
          /\ wire' = wire
    /\ UNCHANGED <<prog, scenario, sent, noise, ser, closeCalled, recvVars, visVars, last,
                   histVars>>

\* BalanceBoardVisualizer.start up to plt.show(): the two prints and
\* FuncAnimation(...) stand before the try.
VStart ==
    /\ pc = "starting"
    /\ pc' \in {"connected", "exited"}
    /\ UNCHANGED <<prog, scenario, deviceVars, ser, closeCalled, recvVars, visVars, last,
                   histVars>>

\* ser.close() in close(): it returns, or it raises and the port stays open.
Close ==
    /\ closeCalled' = TRUE
    /\ ser' \in {"closed", "open"}

\* Lines a pass over buf in which no print raises would print.
Printable(buf) == Len(RExtract(buf, <<>>, <<>>, 0).stdout)

PrintFaults == Cardinality({i \in 1..Len(segs) : segs[i].disp = "raised"})

\* One iteration of the receiver's loop in which nothing in the transport
\* raises.
RPoll ==
    /\ prog = "receiver" /\ pc = "connected"
    /\ \E n \in 0..Len(wire) :
         IF n = 0
         THEN /\ last' = "ok"
              /\ UNCHANGED <<wire, recvVars, histVars>>
         ELSE LET bytes == SubSeq(wire, 1, n)
                  full == Accumulate(buffer, Decode(bytes))
              IN \E failAt \in 0..(IF PrintFaults < MaxPrintFaults
                                  THEN Printable(full) ELSE 0) :
                   \E r \in {RecvPoll(buffer, stdout, bytes, segs, failAt)} :
                      /\ buffer' = r.buffer
                      /\ stdout' = r.stdout
                      /\ segs' = r.segs
                      /\ last' = IF r.raised THEN "print_raised" ELSE "ok"
                      /\ wire' = SubSeq(wire, n + 1, Len(wire))
                      /\ rxBytes' = rxBytes \o bytes
                      /\ rx' = rx \o Decode(bytes)
    /\ UNCHANGED <<prog, scenario, sent, noise, lifeVars, visVars>>

\* A handler that resets the accumulator when a read raises.
RReadFaultClearsBuffer ==
    /\ prog = "receiver" /\ pc = "connected"
    /\ last' = "read_raised"
    /\ buffer' = <<>>
    /\ UNCHANGED <<prog, scenario, deviceVars, lifeVars, stdout, visVars, histVars>>

\* One iteration in which ser.in_waiting or ser.read raises: except: pass.
\* The bytes stay in the serial input buffer.
RReadFault ==
    /\ prog = "receiver" /\ pc = "connected"
    /\ last' = "read_raised"
    /\ UNCHANGED <<prog, scenario, deviceVars, lifeVars, recvVars, visVars, histVars>>

\* A loop whose bare except also catches the interrupt: the iteration ends
\* and the loop goes on.
RInterruptSwallowed ==
    /\ prog = "receiver" /\ pc = "connected"
    /\ last' = "interrupted"
    /\ UNCHANGED <<prog, scenario, deviceVars, lifeVars, recvVars, visVars, histVars>>

\* KeyboardInterrupt in the loop: except KeyboardInterrupt: break, and start
\* returns.
RInterrupt ==
    /\ prog = "receiver" /\ pc = "connected"
    /\ pc' = "leaving"
    /\ last' = "interrupted"
    /\ UNCHANGED <<prog, scenario, deviceVars, ser, closeCalled, recvVars, visVars, histVars>>

\* main's finally after start has returned: receiver.close() inside
\* try/except, then the process ends.
RFinally ==
    /\ prog = "receiver" /\ pc = "leaving"
    /\ pc' = "exited"
    /\ Close
    /\ UNCHANGED <<prog, scenario, deviceVars, recvVars, visVars, last, histVars>>

\* One timer tick, update(frame), in which nothing in the transport raises:
\* read_data, then the redraw.
VTick ==
    /\ prog = "visualiser" /\ pc = "connected"
    /\ \E n \in 0..Len(wire) :
         IF n = 0
         THEN /\ shown' = Redraw(self, shown)
              /\ UNCHANGED <<wire, self, rxBytes, rx, segs>>
         ELSE LET bytes == SubSeq(wire, 1, n)
              IN \E r \in {ReadData(self, bytes, segs)} :
                 /\ self' = r.obj
                 /\ segs' = r.segs
                 /\ shown' = Redraw(r.obj, shown)
                 /\ wire' = SubSeq(wire, n + 1, Len(wire))
                 /\ rxBytes' = rxBytes \o bytes
                 /\ rx' = rx \o Decode(bytes)
    /\ last' = "ok"
    /\ UNCHANGED <<prog, scenario, sent, noise, lifeVars, recvVars>>

\* One timer tick in which ser.in_waiting or ser.read raises: read_data has
\* no handler, so the exception leaves read_data and update before the redraw.
VReadFault ==
    /\ prog = "visualiser" /\ pc = "connected"
    /\ last' = "read_raised"
    /\ UNCHANGED <<prog, scenario, deviceVars, lifeVars, recvVars, visVars, histVars>>

\* plt.show() returns (window closed) or raises (KeyboardInterrupt, or another
\* exception): the finally of start calls self.close().
VExit ==
    /\ prog = "visualiser" /\ pc = "connected"
    /\ pc' = "exited"
    /\ Close
    /\ UNCHANGED <<prog, scenario, deviceVars, recvVars, visVars, last, histVars>>

Next ==
    \/ DeviceSend
    \/ Open
    \/ Construct
    \/ VStart
    \/ RPoll
    \/ RReadFault
    \/ RInterrupt
    \/ RFinally
    \/ VTick
    \/ VReadFault
    \/ VExit

Spec == Init /\ [][Next]_vars

\* The interpreter goes on running: once start has returned, main's finally
\* is executed.
LiveSpec == Spec /\ WF_vars(RFinally)

\* ------------------------------------------------- both consumers side by side

\* The device writes one line to the link both consumers read.
PairSend ==
    /\ prog = "pair" /\ pc = "connected"
    /\ Len(wire) < WireCap
    /\ sent < PairLines
    /\ \E l \in Menu(scenario) : wire' = wire \o l
    /\ sent' = sent + 1
    /\ UNCHANGED <<prog, scenario, noise, lifeVars, recvVars, visVars, last, histVars>>

\* Both consumers constructed and connected, fed by one device.
PairInit ==
    /\ prog = "pair" /\ scenario = "framing"
    /\ sent = 0 /\ noise = 0 /\ wire = <<>>
    /\ pc = "connected" /\ ser = "open" /\ closeCalled = FALSE
    /\ buffer = <<>> /\ stdout = <<>>
    /\ self = NewVisualizer /\ shown = NewFigure
    /\ last = "none"
    /\ rxBytes = <<>> /\ rx = <<>> /\ segs = <<>>

\* One poll of each consumer on the same chunk, nothing raising: the
\* receiver's loop iteration and the visualiser's update().  segs is the
\* visualiser's history.
PairPoll ==
    /\ prog = "pair" /\ pc = "connected"
    /\ \E n \in 0..Len(wire) :
         IF n = 0
         THEN /\ shown' = Redraw(self, shown)
              /\ UNCHANGED <<wire, recvVars, self, histVars>>
         ELSE LET bytes == SubSeq(wire, 1, n)
              IN \E r \in {RecvPoll(buffer, stdout, bytes, <<>>, 0)} :
                 \E v \in {ReadData(self, bytes, segs)} :
                    /\ buffer' = r.buffer
                    /\ stdout' = r.stdout
                    /\ self' = v.obj
                    /\ segs' = v.segs
                    /\ shown' = Redraw(v.obj, shown)
                    /\ wire' = SubSeq(wire, n + 1, Len(wire))
                    /\ rxBytes' = rxBytes \o bytes
                    /\ rx' = rx \o Decode(bytes)
    /\ last' = "ok"
    /\ UNCHANGED <<prog, scenario, sent, noise, lifeVars>>

PairNext ==
    \/ PairSend
    \/ PairPoll

PairSpec == PairInit /\ [][PairNext]_vars

\* ------------------------------------------------------------------ claims

\* The accumulator of the program that runs.
TheBuffer == IF prog = "receiver" THEN buffer ELSE self.buffer

\* Each line followed by a line-feed, concatenated.
RECURSIVE JoinLF(_)
JoinLF(lines) ==
    IF lines = <<>> THEN <<>> ELSE Head(lines) \o <<LF>> \o JoinLF(Tail(lines))

\* The segments split off so far, as split.
Raws == [i \in 1..Len(segs) |-> segs[i].raw]

\* The lines of the segments whose disposition is in ds, in order.
LinesOf(ds) ==
    LET sel == SelectSeq(segs, LAMBDA e : e.disp \in ds)
    IN [i \in 1..Len(sel) |-> sel[i].line]

\* The lines the framer has yielded: every segment that was not empty after
\* trimming.
Yielded == LinesOf({"printed", "raised", "prefix", "count", "parsed"})

\* line is raw without its leading and trailing whitespace.
IsTrimOf(line, raw) ==
    \E a \in 0..Len(raw) : \E b \in a..Len(raw) :
        /\ line = SubSeq(raw, a + 1, b)
        /\ \A i \in 1..a : raw[i] \in Whitespace
        /\ \A i \in (b + 1)..Len(raw) : raw[i] \in Whitespace
        /\ line = <<>> \/ (line[1] \notin Whitespace /\ line[Len(line)] \notin Whitespace)

\* C1 as stated: the lines yielded so far, each followed by a line-feed, then
\* the accumulator, are exactly the input received so far.
C1_Lossless == JoinLF(Yielded) \o TheBuffer = rxBytes

\* C1, amended: the segments split off so far, untrimmed, each followed by a
\* line-feed, then the accumulator, are exactly the decoded text received so
\* far; every yielded line is its segment without the surrounding whitespace,
\* a segment is yielded exactly when that leaves it non-empty, and the
\* receiver's output is, in order, the yielded lines whose print returned.
C1_LosslessUpToTrimming ==
    /\ JoinLF(Raws) \o TheBuffer = rx
    /\ \A i \in 1..Len(segs) :
          /\ IsTrimOf(segs[i].line, segs[i].raw)
          /\ segs[i].disp = "empty" <=> segs[i].line = <<>>
    /\ prog = "receiver" => stdout = LinesOf({"printed"})

\* A partial line waits in the accumulator after a segment that was trimmed
\* and a segment that was dropped as empty.
C1_Witness ==
    /\ TheBuffer # <<>>
    /\ \E i \in 1..Len(segs) : segs[i].disp = "empty"
    /\ \E i \in 1..Len(segs) : segs[i].line # <<>> /\ segs[i].line # segs[i].raw

\* The bytes the step delivers.
Delivered == SubSeq(rxBytes', Len(rxBytes) + 1, Len(rxBytes'))

\* The visualiser after one read_data that delivers all of bytes.
SinglePoll(bytes) == ReadData(NewVisualizer, bytes, <<>>).obj

\* C2 as stated: a poll of the visualiser that delivers no line-feed changes
\* nothing but the accumulator, and after a poll that delivers a line-feed
\* the object is what one poll delivering the whole stream would leave.
C2_ChunkingIndependent ==
    [][(prog = "visualiser" /\ rxBytes' # rxBytes) =>
          IF HasLF(Delivered)
          THEN self' = SinglePoll(rxBytes')
          ELSE Readings(self') = Readings(self)]_vars

\* The same for the decoded text: whatever the chunks, the object is what one
\* pass over all the text decoded so far would leave.
ChunkingIndependentOfText ==
    prog = "visualiser" => self = VExtract([NewVisualizer EXCEPT !.buffer = rx], <<>>).obj

\* The COP pair a data line carries.
CopOf(line) == <<FloatVal(SplitComma(line)[6]), FloatVal(SplitComma(line)[7])>>

\* The COP pairs of the lines parsed successfully so far, oldest first.
ParsedCops ==
    LET ls == LinesOf({"parsed"}) IN [i \in 1..Len(ls) |-> CopOf(ls[i])]

\* The trail as pairs.
Trail == [i \in 1..Len(self.trail_x) |-> <<self.trail_x[i], self.trail_y[i]>>]

\* C3: the trail holds the COP pairs of the last min(n, 20) successfully
\* parsed lines, oldest first, and is never longer than 20 between polls.
C3_TrailIsLastTwenty ==
    prog = "visualiser" =>
        LET n == Len(ParsedCops)
            k == IF n < TrailCap THEN n ELSE TrailCap
        IN /\ Len(self.trail_x) = Len(self.trail_y)
           /\ Len(self.trail_x) <= TrailCap
           /\ Trail = SubSeq(ParsedCops, n - k + 1, n)

\* More than 20 lines were parsed and the trail is full.
C3_Witness ==
    prog = "visualiser" /\ Len(ParsedCops) > TrailCap + 1 /\ Len(self.trail_x) = TrailCap

\* A line of 7 fields, without diagnostic prefix, one of whose fields 1..6 is
\* not a number.
IsMalformedRecord(line) ==
    /\ line # <<>> /\ ~HasPrefix(line)
    /\ Len(SplitComma(line)) = FieldCount
    /\ \E k \in 2..FieldCount : ~IsFloat(SplitComma(line)[k])

\* C4 as stated: a 7-field line with a non-numeric field among 1..6 leaves
\* F1..F4, COPx, COPy and the trail as they were.
C4_NoRecordOnParseFailure ==
    prog = "visualiser" =>
        \A i \in 1..Len(segs) : IsMalformedRecord(segs[i].line) => segs[i].same

\* What one pass without faults over all the decoded text prints and keeps.
FaultFree == RExtract(rx, <<>>, <<>>, 0)

\* C5: in the receiver an iteration whose read raises prints nothing, leaves
\* the accumulator, the framing history and the unread bytes as they were and
\* stays in CONNECTED; and as long as no print has raised, output and
\* accumulator are those of one fault-free pass over the text received,
\* however many reads raised in between.
C5_ReadFaultSwallowed ==
    /\ [][(prog = "receiver" /\ last # "read_raised" /\ last' = "read_raised") =>
             /\ buffer' = buffer /\ stdout' = stdout /\ segs' = segs
             /\ wire' = wire /\ rx' = rx
             /\ pc' = "connected"]_vars
    /\ [](prog = "receiver" /\ LinesOf({"raised"}) = <<>> =>
             stdout = FaultFree.stdout /\ buffer = FaultFree.buffer)

\* A read has just raised while a partial line waits in the accumulator and
\* lines have been printed.
C5_Witness ==
    prog = "receiver" /\ last = "read_raised" /\ buffer # <<>> /\ stdout # <<>>

\* C6 as stated: in the visualiser no update() ends by raising because a read
\* failed; the failure is swallowed and the tick redraws.
C6_ReadFaultSwallowed == prog = "visualiser" => last # "read_raised"

\* C7 as stated: once the port was opened, the process exits only after
\* ser.close() was called.
C7_ClosedOnEveryExit == (pc = "exited" /\ ser # "unopened") => closeCalled

\* C8: every line handed on (printed, or given to the prefix filter and the
\* parser) is non-empty, has no whitespace at either end and holds no
\* line-feed; a segment that is empty or all whitespace is not handed on and
\* leaves stdout and the readings as they were.
C8_LinesAreTrimmedNonEmpty ==
    /\ \A i \in 1..Len(segs) :
          LET l == segs[i].line
              r == segs[i].raw
          IN /\ segs[i].disp # "empty" =>
                   /\ l # <<>>
                   /\ l[1] \notin Whitespace /\ l[Len(l)] \notin Whitespace
                   /\ ~HasLF(l)
             /\ (\A j \in 1..Len(r) : r[j] \in Whitespace) =>
                   segs[i].disp = "empty" /\ segs[i].same
    /\ \A i \in 1..Len(stdout) :
          /\ stdout[i] # <<>>
          /\ stdout[i][1] \notin Whitespace /\ stdout[i][Len(stdout[i])] \notin Whitespace
          /\ ~HasLF(stdout[i])

\* A whitespace-only segment was dropped and a line was handed on trimmed.
C8_Witness ==
    /\ \E i \in 1..Len(segs) : segs[i].raw # <<>> /\ segs[i].disp = "empty"
    /\ \E i \in 1..Len(segs) : segs[i].disp # "empty" /\ segs[i].line # segs[i].raw

\* C9 as stated: between polls the accumulator holds no line-feed.
C9_NoLineFeedInAccumulator == ~HasLF(TheBuffer)

\* C10: a line with a diagnostic prefix, or with a field count other than 7,
\* leaves F1..F4, COPx, COPy and the trail as they were, and no float() of it
\* raises (it is never parsed).
C10_NonDataLinesLeaveStateUntouched ==
    prog = "visualiser" =>
        \A i \in 1..Len(segs) :
            (HasPrefix(segs[i].line) \/ Len(SplitComma(segs[i].line)) # FieldCount) =>
                segs[i].same /\ segs[i].disp \in {"empty", "prefix", "count"}

\* After a data line was parsed, a 7-field line with a diagnostic prefix and
\* an 8-field line were each handled.
C10_Witness ==
    /\ prog = "visualiser"
    /\ \E i \in 1..Len(segs) : \E j \in (i + 1)..Len(segs) :
          /\ segs[i].disp = "parsed"
          /\ \/ HasPrefix(segs[j].line) /\ Len(SplitComma(segs[j].line)) = FieldCount
             \/ Len(SplitComma(segs[j].line)) = FieldCount + 1

\* A line of exactly 7 fields, without diagnostic prefix, whose fields 1..6
\* are numbers.
IsValidRecord(line) ==
    /\ line # <<>> /\ ~HasPrefix(line)
    /\ Len(SplitComma(line)) = FieldCount
    /\ \A k \in 2..FieldCount : IsFloat(SplitComma(line)[k])

\* The values fields 1..6 of a line stand for, in field order.
FieldValues(line) == [k \in 1..(FieldCount - 1) |-> FloatVal(SplitComma(line)[k + 1])]

\* C11: right after the visualiser has processed a 7-field line without
\* diagnostic prefix whose fields 1..6 are numbers, F1, F2, F3, F4, COPx, COPy
\* are the values of fields 1..6 in that order and the newest trail entry is
\* (field 5, field 6); the result is determined by fields 1..6 alone, so field
\* 0 has no part in it.
C11_ParsedPositionally ==
    prog = "visualiser" =>
        \A i \in 1..Len(segs) :
            IsValidRecord(segs[i].line) =>
                /\ segs[i].disp = "parsed"
                /\ segs[i].now = FieldValues(segs[i].line)
                /\ segs[i].newest = <<FieldValues(segs[i].line)[5], FieldValues(segs[i].line)[6]>>

\* The line "x,.5,2,0, 1,-.5,8", whose TIME is not a number, was processed
\* after another data line and left F1 = 0.5, F2 = 2.0, F3 = 0.0, F4 = 1.0,
\* COPx = -0.5, COPy = 8.0 (in tenths) and the trail entry (-0.5, 8.0).
C11_Witness ==
    /\ prog = "visualiser"
    /\ \E i \in 2..Len(segs) :
          /\ segs[i - 1].disp = "parsed"
          /\ segs[i].line = SubSeq(SignedLine, 1, Len(SignedLine) - 1)
          /\ segs[i].now = <<5, 20, 0, 10, -5, 80>>
          /\ segs[i].newest = <<-5, 80>>
          /\ segs[i].now # segs[i - 1].now

\* The line-feed-terminated segments of text, trimmed, the empty ones left
\* out, in order.
RECURSIVE TrimmedSegments(_)
TrimmedSegments(text) ==
    IF ~HasLF(text) THEN <<>>
    ELSE LET l == Strip(SplitFirst(text).line)
         IN (IF l = <<>> THEN <<>> ELSE <<l>>) \o TrimmedSegments(SplitFirst(text).rest)

\* C12 as stated, for the runs in which every print returned: while the
\* receiver is connected, after every iteration the lines printed are, in
\* order and whatever their content, the trimmed non-empty
\* line-feed-terminated segments of the input received so far (so every line
\* whose line-feed was read is already printed).
C12_PassThrough ==
    (prog = "receiver" /\ pc = "connected" /\ LinesOf({"raised"}) = <<>>) =>
        stdout = TrimmedSegments(Decode(rxBytes))

\* The same for the decoded text: the lines printed are the trimmed non-empty
\* segments of the text the chunks decoded to.
PassThroughOfText ==
    (prog = "receiver" /\ LinesOf({"raised"}) = <<>>) => stdout = TrimmedSegments(rx)

\* Line-feeds in s.
CountLF(s) == Cardinality({i \in 1..Len(s) : s[i] = LF})

\* Iterations of the extraction loop in the step: every iteration splits off
\* one segment.
Iterations == Len(segs') - Len(segs)

\* C13 as stated: a poll that reads a chunk runs the extraction loop exactly
\* as many times as there are line-feeds in the accumulator and the chunk
\* together, and then returns to its caller (the next iteration of the
\* receiver's loop, or the redraw).
C13_PollIsFinite ==
    [][rxBytes' # rxBytes =>
          /\ Iterations = CountLF(TheBuffer) + CountLF(Delivered)
          /\ pc' = "connected"]_vars

\* The same for the visualiser alone, whose loop body cannot raise, and for
\* the iterations of the receiver in which every print returns.
PollIsFiniteUnlessPrintRaises ==
    [][(rxBytes' # rxBytes /\ last' = "ok") =>
          /\ Iterations = CountLF(TheBuffer) + CountLF(Delivered)
          /\ ~HasLF(TheBuffer')
          /\ pc' = "connected"]_vars

\* The share |force| / |total| in thousandths, rounded to the nearest.
SharePermille(force, total) == (2000 * Abs(force) + Abs(total)) \div (2 * Abs(total))

\* 0.3 + 0.7 * |force| / |total| clamped to [0.3, 1.0], in thousandths
\* (rounded down).
Emphasis(force, total) ==
    LET a == 300 + (700 * Abs(force)) \div Abs(total)
    IN IF a < 300 THEN 300 ELSE IF a > 1000 THEN 1000 ELSE a

\* C14 as stated: after every redraw, when the magnitude of the total
\* F1+F2+F3+F4 exceeds 1.0 every cell shows its share |Fi| / |total| as a
\* percentage and the emphasis 0.3 + 0.7 * share clamped to [0.3, 1.0]; when
\* it does not, every cell shows 0% and emphasis 0.3; the emphasis always
\* lies in [0.3, 1.0].
C14_ForceCellDisplay ==
    prog = "visualiser" =>
        \A i \in 1..4 :
            /\ IF Abs(shown.total) > 10
               THEN /\ shown.pct[i] = SharePermille(shown.forces[i], shown.total)
                    /\ shown.alpha[i] = Emphasis(shown.forces[i], shown.total)
               ELSE /\ shown.pct[i] = 0
                    /\ shown.alpha[i] = 300
            /\ shown.alpha[i] >= 300 /\ shown.alpha[i] <= 1000

\* The rule with the total taken with its sign, as `if total > 1.0` reads.
ForceCellDisplaySigned ==
    prog = "visualiser" =>
        /\ shown.total = shown.forces[1] + shown.forces[2] + shown.forces[3] + shown.forces[4]
        /\ \A i \in 1..4 :
            /\ IF shown.total > 10
               THEN /\ shown.pct[i] = SharePermille(shown.forces[i], shown.total)
                    /\ shown.alpha[i] = Emphasis(shown.forces[i], shown.total)
               ELSE /\ shown.pct[i] = 0
                    /\ shown.alpha[i] = 300
            /\ shown.alpha[i] >= 300 /\ shown.alpha[i] <= 1000

\* Redraws that showed: a total of exactly 1.0 (nothing highlighted), a cell
\* whose share is above 1 (emphasis clamped to 1.0), and a cell with a share
\* strictly between 0 and 1.
ForceCellCasesShown ==
    /\ prog = "visualiser" /\ shown.total > 10
    /\ \E i \in 1..4 : Abs(shown.forces[i]) > shown.total /\ shown.alpha[i] = 1000
    /\ \E i \in 1..4 : shown.alpha[i] > 300 /\ shown.alpha[i] < 1000

\* The line that produced the newest trail entry: the last one whose try
\* block ran to its end.
LastParsed == LinesOf({"parsed"})[Len(LinesOf({"parsed"}))]

\* C15 as stated: between polls the two trail sequences are equally long and,
\* when the trail is not empty, its newest entry is the current
\* (COPx, COPy) and the current F1..F4 are those of the line that produced
\* that entry.
C15_ReadingMatchesTrail ==
    prog = "visualiser" =>
        /\ Len(self.trail_x) = Len(self.trail_y)
        /\ self.trail_x # <<>> =>
              /\ Newest(self) = <<self.copx, self.copy>>
              /\ <<self.f1, self.f2, self.f3, self.f4>> = SubSeq(FieldValues(LastParsed), 1, 4)

\* The part of it that does not depend on the current values: the trails are
\* equally long and the newest entry is the COP pair of the last line parsed
\* to its end.
TrailMatchesLastParsed ==
    prog = "visualiser" =>
        /\ Len(self.trail_x) = Len(self.trail_y)
        /\ self.trail_x # <<>> => Newest(self) = SubSeq(FieldValues(LastParsed), 5, 6)

Submitted == LinesOf({"count", "raised", "parsed"})

\* The receiver's printed lines without the diagnostic-prefixed ones.
PrintedData == SelectSeq(stdout, LAMBDA l : ~HasPrefix(l))

\* C17: fed the same fault-free chunks, after every poll the receiver's and
\* the visualiser's accumulators are equal, and the lines the visualiser has
\* submitted to parsing are the receiver's printed lines without the
\* diagnostic-prefixed ones, in the same order.
C17_FramersEquivalent ==
    prog = "pair" =>
        /\ buffer = self.buffer
        /\ Submitted = PrintedData

\* Both hold a partial line after the receiver has printed a
\* diagnostic-prefixed line and a line that the visualiser submitted to
\* parsing, and a character was cut by a chunk boundary.
C17_Witness ==
    /\ prog = "pair" /\ buffer # <<>>
    /\ \E i \in 1..Len(stdout) : HasPrefix(stdout[i])
    /\ Submitted # <<>>
    /\ rx # Decode(rxBytes)

====
